---- MODULE Spec2Model ----
(***************************************************************************)
(* The "incremental" command of restic (cmd/restic/cmd_incremental.go):    *)
(* makeTree merges the tree of the latest snapshot with a sorted list of   *)
(* changed paths, runIncremental drives the run from the argument check to *)
(* the new snapshot.                                                       *)
(*                                                                         *)
(* Strings are sequences of character codes, ordered as in ASCII:          *)
(* "." < "/" < letters.  A tree identifier is the position of the tree in  *)
(* the store; 0 is the nil/zero identifier.                                *)
(***************************************************************************)
EXTENDS Integers, Sequences, FiniteSets, TLC

VARIABLES
    opts,          \* IncrementalOptions handed to runIncremental
    disk,          \* the paths that exist on the filesystem during the run
    store,         \* repository: tree objects, by identifier
    unpacked,      \* repository: files written by SaveUnpacked
    snapshots,     \* repository: snapshot objects
    prior,         \* the repository as it was before the run
    pc,            \* position of runIncremental
    locked,        \* the append lock is held
    uploader,      \* the pack uploader was started
    sn,            \* the snapshot found by FindLatest
    includePaths,  \* the gathered, sorted change paths
    treeID,        \* the identifier returned by the root makeTree call
    calls,         \* the makeTree calls of the run, in order of return
    flushed,       \* repo.Flush returned without error
    err            \* the error runIncremental returned, "" while none

vars == <<opts, disk, store, unpacked, snapshots, prior, pc, locked, uploader,
          sn, includePaths, treeID, calls, flushed, err>>

----------------------------------------------------------------------------
(* Bounds *)

MaxPaths == 3      \* change paths handed to one run
MaxNodes == 2      \* entries of one directory of the prior snapshot

----------------------------------------------------------------------------
(* Strings *)

Dot   == <<0>>
Slash == <<1>>
A == <<2>>
B == <<3>>
C == <<4>>
D == <<5>>

RECURSIVE StrLess(_, _)
StrLess(s, t) ==
    IF t = <<>> THEN FALSE
    ELSE IF s = <<>> THEN TRUE
    ELSE IF Head(s) # Head(t) THEN Head(s) < Head(t)
    ELSE StrLess(Tail(s), Tail(t))

HasPrefix(s, p) == Len(p) <= Len(s) /\ SubSeq(s, 1, Len(p)) = p

LastSlash(p) ==
    LET S == {k \in 1..Len(p) : <<p[k]>> = Slash}
    IN IF S = {} THEN 0 ELSE CHOOSE k \in S : \A m \in S : m <= k

\* filepath.Dir on a cleaned path
FilepathDir(p) ==
    LET k == LastSlash(p)
    IN IF k = 0 THEN Dot
       ELSE IF k = 1 THEN Slash
       ELSE SubSeq(p, 1, k - 1)

\* filepath.Base on a cleaned path
FilepathBase(p) ==
    IF p = <<>> THEN Dot
    ELSE IF p = Slash THEN Slash
    ELSE SubSeq(p, LastSlash(p) + 1, Len(p))

RECURSIVE InsertSorted(_, _)
InsertSorted(s, x) ==
    IF s = <<>> THEN <<x>>
    ELSE IF StrLess(x, Head(s)) THEN <<x>> \o s
    ELSE <<Head(s)>> \o InsertSorted(Tail(s), x)

RECURSIVE SortStrings(_)
SortStrings(s) ==
    IF s = <<>> THEN <<>> ELSE InsertSorted(SortStrings(Tail(s)), Head(s))

Range(s) == {s[k] : k \in 1..Len(s)}

----------------------------------------------------------------------------
(* Filesystem *)

\* os.Stat(path) returns no error
OsStat(path) == path \in disk

\* the paths that are directories whenever they exist
DirPaths == {Slash \o B, Slash \o D}

NodeFromFileInfo(path) ==
    [name    |-> FilepathBase(path),
     type    |-> IF path \in DirPaths THEN "dir" ELSE "file",
     subtree |-> 0,
     origin  |-> path]

----------------------------------------------------------------------------
(* Tree, TreeJSONBuilder and the repository *)

IsSorted(nodes) ==
    \A k \in 1..(Len(nodes) - 1) : StrLess(nodes[k].name, nodes[k + 1].name)

RECURSIVE InsertNode(_, _)
InsertNode(nodes, node) ==
    IF nodes = <<>> THEN <<node>>
    ELSE IF StrLess(node.name, Head(nodes).name) THEN <<node>> \o nodes
    ELSE <<Head(nodes)>> \o InsertNode(Tail(nodes), node)

TreeInsert(tree, node) ==
    IF \E k \in 1..Len(tree) : tree[k].name = node.name
    THEN [err |-> TRUE, tree |-> tree]
    ELSE [err |-> FALSE, tree |-> InsertNode(tree, node)]

TbAddNode(tb, node, strict) ==
    IF strict /\ tb # <<>> /\ ~StrLess(tb[Len(tb)].name, node.name)
    THEN [err |-> TRUE, tb |-> tb]
    ELSE [err |-> FALSE, tb |-> Append(tb, node)]

LoadTree(st, id) ==
    IF id \in 1..Len(st)
    THEN [err |-> FALSE, tree |-> st[id]]
    ELSE [err |-> TRUE, tree |-> <<>>]

SaveTree(st, tree) ==
    IF \E k \in 1..Len(st) : st[k] = tree
    THEN [store |-> st, id |-> CHOOSE k \in 1..Len(st) : st[k] = tree]
    ELSE [store |-> Append(st, tree), id |-> Len(st) + 1]

SaveUnpacked(files, treeJSON) == files \cup {treeJSON}

----------------------------------------------------------------------------
(* makeTree *)

\* line 97: the path is kept at this level
InScope(path, dir) == HasPrefix(path, dir)

\* the comparison without the directory prefix
NodeMatchesNameOnly(dir, node, path) == node.name = path

\* line 117: the path is the full path of the node
NodeMatches(dir, node, path) == dir \o node.name = path

\* the name comparison the wrong way round
InsertsBeforeReversed(dir, node, path) ==
    /\ FilepathDir(dir \o node.name) = FilepathDir(path)
    /\ StrLess(node.name, FilepathBase(path))

\* line 130, second operand: the path is a new entry that goes before the node
InsertsBefore(dir, node, path) ==
    /\ FilepathDir(dir \o node.name) = FilepathDir(path)
    /\ StrLess(FilepathBase(path), node.name)

\* line 187: the path is a new entry of the directory of the last node
InsertsAtEnd(dir, node, path) ==
    FilepathDir(dir \o node.name) = FilepathDir(path)

\* tree.Insert(node) followed by tb.AddNode(node)
InsertBoth(node, tb, tree, strict) ==
    LET ins == TreeInsert(tree, node)
        add == TbAddNode(tb, node, strict)
    IN IF ins.err THEN [err |-> TRUE, tb |-> tb, tree |-> tree]
       ELSE IF add.err THEN [err |-> TRUE, tb |-> tb, tree |-> ins.tree]
       ELSE [err |-> FALSE, tb |-> add.tb, tree |-> ins.tree]

\* addNode that appends the node to tree.Nodes instead of tree.Insert
AddNodeAppend(path, tb, tree, strict) ==
    IF ~OsStat(path)
    THEN [err |-> TRUE, tb |-> tb, tree |-> tree]
    ELSE LET add == TbAddNode(tb, NodeFromFileInfo(path), strict) IN
         [err |-> add.err, tb |-> add.tb,
          tree |-> Append(tree, NodeFromFileInfo(path))]

AddNode(path, tb, tree, strict) ==
    IF ~OsStat(path)
    THEN [err |-> TRUE, tb |-> tb, tree |-> tree]
    ELSE InsertBoth(NodeFromFileInfo(path), tb, tree, strict)

\* lines 160-166: keys
UnremovedPaths(paths, remove) ==
    LET sel == SelectSeq([j \in 1..Len(paths) |-> <<j, paths[j]>>],
                         LAMBDA e : ~remove[e[1]])
    IN SortStrings([k \in 1..Len(sel) |-> sel[k][2]])

\* the identifier of the tree being rebuilt in place of the new subtree
NewSubtreeOfParent(nodeID, oldID, newID) == nodeID

\* line 173
NewSubtree(nodeID, oldID, newID) == newID

\* the rebuilt tree written over the tree it was loaded from
StoreTreeInPlace(st, nodeID, tree) ==
    [store |-> [st EXCEPT ![nodeID] = tree], id |-> nodeID]

\* line 205: the rebuilt tree is saved as a new object
StoreTree(st, nodeID, tree) == SaveTree(st, tree)

(* A frame fr of makeTree: [st, tree, tb, remove, err], where st is the     *)
(* repository and the record of calls: [store, unpacked, calls, strict].   *)

\* lines 107-141: the loop over includePaths for one node
RECURSIVE PathLoop(_, _, _, _, _, _)
PathLoop(j, node, dir, paths, fr, skipNode) ==
    IF j > Len(paths) THEN [fr |-> fr, skipNode |-> skipNode]
    ELSE LET path == paths[j] IN
      IF fr.remove[j] \/ path = <<>>
      THEN PathLoop(j + 1, node, dir, paths, fr, skipNode)
      ELSE LET matched == NodeMatches(dir, node, path)
               skip2   == skipNode \/ matched
           IN IF matched /\ ~OsStat(path)
              THEN PathLoop(j + 1, node, dir, paths, fr, TRUE)
              ELSE IF skip2 \/ InsertsBefore(dir, node, path)
              THEN LET a == AddNode(path, fr.tb, fr.tree, fr.st.strict) IN
                   IF a.err
                   THEN [fr |-> [fr EXCEPT !.err = TRUE, !.tree = a.tree],
                         skipNode |-> skip2]
                   ELSE PathLoop(j + 1, node, dir, paths,
                                 [fr EXCEPT !.tree = a.tree, !.tb = a.tb,
                                            !.remove[j] = TRUE],
                                 skip2)
              ELSE PathLoop(j + 1, node, dir, paths, fr, skip2)

\* lines 183-195: the new entries after the last node
RECURSIVE TailLoop(_, _, _, _, _)
TailLoop(k, keys, dir, node, fr) ==
    IF k > Len(keys) THEN fr
    ELSE IF InsertsAtEnd(dir, node, keys[k])
    THEN LET a == AddNode(keys[k], fr.tb, fr.tree, fr.st.strict) IN
         IF a.err THEN [fr EXCEPT !.err = TRUE, !.tree = a.tree]
         ELSE TailLoop(k + 1, keys, dir, node,
                       [fr EXCEPT !.tree = a.tree, !.tb = a.tb])
    ELSE TailLoop(k + 1, keys, dir, node, fr)

\* one entry of the record of calls
Call(st0, st1, nodeID, dir, paths, loaded, old, fr, ret, e) ==
    [id |-> nodeID, dir |-> dir, paths |-> paths, loaded |-> loaded,
     old |-> old, new |-> fr.tree, tb |-> fr.tb, ret |-> ret,
     wrote |-> (st1.store # st0.store \/ st1.unpacked # st0.unpacked),
     remove |-> fr.remove, err |-> e]

\* what a call returns: [err, id, st], with the call added to the record
Returned(st0, st1, nodeID, dir, paths, loaded, old, fr, ret, e) ==
    [err |-> e, id |-> ret,
     st |-> [st1 EXCEPT !.calls = Append(@,
               Call(st0, st1, nodeID, dir, paths, loaded, old, fr, ret, e))]]

\* a fast path that is never taken
NoPathsNever(paths) == Len(paths) < 0

\* line 83
NoPaths(paths) == Len(paths) = 0

\* lines 91-102: the empty tree and builder, and the paths out of scope
Frame0(st0, dir, paths) ==
    [st |-> st0, tree |-> <<>>, tb |-> <<>>,
     remove |-> [j \in 1..Len(paths) |-> ~InScope(paths[j], dir)],
     err |-> FALSE]

\* lines 105-141: the change paths against one node
NodeHead(node, dir, paths, fr) == PathLoop(1, node, dir, paths, fr, FALSE)

\* lines 145-155: a node that is no directory is copied
NodeCopy(node, f1) ==
    LET b == InsertBoth(node, f1.tb, f1.tree, f1.st.strict) IN
    IF b.err THEN [f1 EXCEPT !.err = TRUE, !.tree = b.tree]
    ELSE [f1 EXCEPT !.tree = b.tree, !.tb = b.tb]

\* lines 174-195: the directory node with its new subtree, then the new
\* entries after the last node
DirInsert(last, node2, dir, keys, f1, b) ==
    IF b.err THEN [f1 EXCEPT !.err = TRUE, !.tree = b.tree]
    ELSE IF last
    THEN TailLoop(1, keys, dir, node2, [f1 EXCEPT !.tree = b.tree, !.tb = b.tb])
    ELSE [f1 EXCEPT !.tree = b.tree, !.tb = b.tb]

\* lines 169-173: the recursive call returned sub
AfterRecursion(last, nodeID, node, dir, keys, f1, sub) ==
    IF sub.err THEN [f1 EXCEPT !.err = TRUE, !.st = sub.st]
    ELSE DirInsert(last,
                   [node EXCEPT
                      !.subtree = NewSubtree(nodeID, node.subtree, sub.id)],
                   dir, keys, [f1 EXCEPT !.st = sub.st],
                   InsertBoth([node EXCEPT
                                 !.subtree = NewSubtree(nodeID, node.subtree, sub.id)],
                              f1.tb, f1.tree, f1.st.strict))

RECURSIVE MakeTree(_, _, _, _)

\* a recursive call whose prefix lacks the closing separator
DescendNoSlash(last, nodeID, node, dir, keys, f1) ==
    AfterRecursion(last, nodeID, node, dir, keys, f1,
                   MakeTree(f1.st, node.subtree, dir \o node.name, keys))

\* lines 156-168: the recursive call for a directory node
Descend(last, nodeID, node, dir, keys, f1) ==
    AfterRecursion(last, nodeID, node, dir, keys, f1,
                   MakeTree(f1.st, node.subtree, dir \o node.name \o Slash, keys))

\* lines 142-196: one node after its loop over the change paths returned p
NodeBody(last, nodeID, node, dir, paths, p) ==
    IF p.fr.err \/ p.skipNode THEN p.fr
    ELSE IF node.type # "dir" THEN NodeCopy(node, p.fr)
    ELSE Descend(last, nodeID, node, dir,
                 UnremovedPaths(paths, p.fr.remove), p.fr)

\* lines 104-197: the loop over the nodes of the loaded tree
RECURSIVE NodeLoop(_, _, _, _, _, _)
NodeLoop(i, nodeID, nodes, dir, paths, fr) ==
    IF i > Len(nodes) \/ fr.err THEN fr
    ELSE NodeLoop(i + 1, nodeID, nodes, dir, paths,
                  NodeBody(i = Len(nodes), nodeID, nodes[i], dir, paths,
                           NodeHead(nodes[i], dir, paths, fr)))

\* lines 204-215: the new tree and the builder's JSON are saved
Saved(st0, nodeID, dir, paths, old, fr, sv) ==
    Returned(st0,
             [fr.st EXCEPT !.store = sv.store,
                           !.unpacked = SaveUnpacked(@, fr.tb)],
             nodeID, dir, paths, TRUE, old, fr, sv.id, FALSE)

\* lines 198-215
Finish(st0, nodeID, dir, paths, old, fr) ==
    IF fr.err
    THEN Returned(st0, fr.st, nodeID, dir, paths, TRUE, old, fr, 0, TRUE)
    ELSE Saved(st0, nodeID, dir, paths, old, fr,
               StoreTree(fr.st.store, nodeID, fr.tree))

\* lines 86-197
Build(st0, nodeID, dir, paths, ld) ==
    IF ld.err
    THEN Returned(st0, st0, nodeID, dir, paths, FALSE, <<>>,
                  Frame0(st0, dir, <<>>), 0, TRUE)
    ELSE Finish(st0, nodeID, dir, paths, ld.tree,
                NodeLoop(1, nodeID, ld.tree, dir, paths,
                         Frame0(st0, dir, paths)))

\* lines 81-216.  Returns [err, id, st].
MakeTree(st0, nodeID, dir, paths) ==
    IF NoPaths(paths)
    THEN Returned(st0, st0, nodeID, dir, paths, FALSE, <<>>,
                  Frame0(st0, dir, <<>>), nodeID, FALSE)
    ELSE Build(st0, nodeID, dir, paths, LoadTree(st0.store, nodeID))

----------------------------------------------------------------------------
(* Path-set preparation (include.go) *)

BadPattern == <<9>>          \* a pattern filter.ValidatePatterns rejects

ValidatePatterns(patterns) == BadPattern \notin Range(patterns)

RECURSIVE Concat(_)
Concat(ss) == IF ss = <<>> THEN <<>> ELSE Head(ss) \o Concat(Tail(ss))

\* readPatternsFromFiles: [err, patterns]
ReadPatternsFromFiles(files) ==
    IF \E k \in 1..Len(files) : ~files[k].readable
    THEN [err |-> TRUE, patterns |-> <<>>]
    ELSE [err |-> FALSE,
          patterns |-> Concat([k \in 1..Len(files) |-> files[k].patterns])]

\* includePatternOptions.Empty
Empty(o) ==
    /\ Len(o.Includes) = 0
    /\ Len(o.InsensitiveIncludes) = 0
    /\ Len(o.IncludeFiles) = 0
    /\ Len(o.InsensitiveIncludeFiles) = 0

\* snapshotMetadataArgs.empty
MetadataEmpty(o) == o.metaEmpty

\* includePatternOptions.GetPathsFromPatterns: [err, paths]
GetPathsFromPatterns(o) ==
    LET f1 == ReadPatternsFromFiles(o.IncludeFiles)
        f2 == ReadPatternsFromFiles(o.InsensitiveIncludeFiles)
        inc == IF Len(o.IncludeFiles) > 0
               THEN o.Includes \o f1.patterns ELSE o.Includes
        iinc == IF Len(o.InsensitiveIncludeFiles) > 0
                THEN o.InsensitiveIncludes \o f2.patterns
                ELSE o.InsensitiveIncludes
    IN IF Len(o.IncludeFiles) > 0 /\ f1.err
       THEN [err |-> "ReadError", paths |-> <<>>]
       ELSE IF Len(o.IncludeFiles) > 0 /\ ~ValidatePatterns(f1.patterns)
       THEN [err |-> "InvalidPattern", paths |-> <<>>]
       ELSE IF Len(o.InsensitiveIncludeFiles) > 0 /\ f2.err
       THEN [err |-> "ReadError", paths |-> <<>>]
       ELSE IF Len(o.InsensitiveIncludeFiles) > 0 /\ ~ValidatePatterns(f2.patterns)
       THEN [err |-> "InvalidPattern", paths |-> <<>>]
       ELSE [err |-> "", paths |-> inc \o iinc]

----------------------------------------------------------------------------
(* The inputs of a run: a repository, the options, the filesystem *)

RECURSIVE SortedNames(_)
SortedNames(S) ==
    IF S = {} THEN <<>>
    ELSE LET m == CHOOSE x \in S : \A y \in S : y = x \/ StrLess(x, y)
         IN <<m>> \o SortedNames(S \ {m})

Small(S, n) == {T \in SUBSET S : Cardinality(T) <= n}

FileNode(n) == [name |-> n, type |-> "file", subtree |-> 0, origin |-> <<>>]
DirNode(n, id) == [name |-> n, type |-> "dir", subtree |-> id, origin |-> <<>>]

FilesTree(S) ==
    LET names == SortedNames(S) IN [k \in 1..Len(names) |-> FileNode(names[k])]

\* a tree object of the prior repository, stored once
Intern(st, tree) ==
    IF \E k \in 1..Len(st) : st[k] = tree
    THEN [store |-> st, id |-> CHOOSE k \in 1..Len(st) : st[k] = tree]
    ELSE [store |-> Append(st, tree), id |-> Len(st) + 1]

\* The repository of a snapshot of "/" with the entries R, of which b and d
\* are directories holding the files SB and SD.
RepoOf(R, SB, SD) ==
    LET s1 == IF B \in R THEN Intern(<<>>, FilesTree(SB))
                         ELSE [store |-> <<>>, id |-> 0]
        s2 == IF D \in R THEN Intern(s1.store, FilesTree(SD))
                         ELSE [store |-> s1.store, id |-> 0]
        names == SortedNames(R)
        root == [k \in 1..Len(names) |->
                   IF names[k] = B THEN DirNode(B, s1.id)
                   ELSE IF names[k] = D THEN DirNode(D, s2.id)
                   ELSE FileNode(names[k])]
        s3 == Intern(s2.store, root)
    IN [store |-> s3.store,
        snapshots |-> {[tree |-> s3.id, descr |-> "host", time |-> 0]}]

EmptyRepo == [store |-> <<>>, snapshots |-> {}]

Repos ==
    {RepoOf(R, SB, SD) : R \in Small({A, B, C, D}, MaxNodes),
                         SB \in Small({A, B, C}, MaxNodes),
                         SD \in {{}, {A}}}
    \cup {EmptyRepo}

PathUniverse ==
    {Slash \o A, Slash \o B, Slash \o C, Slash \o D,
     Slash \o B \o Slash \o A, Slash \o B \o Slash \o B,
     Slash \o B \o Slash \o C, Slash \o D \o Slash \o A,
     Slash \o B \o B \o Slash \o A}

\* the change paths as the user names them: in descending order
RECURSIVE Descending(_)
Descending(S) ==
    IF S = {} THEN <<>>
    ELSE LET m == CHOOSE x \in S : \A y \in S : y = x \/ StrLess(y, x)
         IN <<m>> \o Descending(S \ {m})

NoOpts ==
    [Includes |-> <<>>, InsensitiveIncludes |-> <<>>, IncludeFiles |-> <<>>,
     InsensitiveIncludeFiles |-> <<>>, metaEmpty |-> TRUE]

File(ok, patterns) == [readable |-> ok, patterns |-> patterns]

PatternFiles ==
    {<<File(FALSE, <<>>)>>, <<File(TRUE, <<BadPattern>>)>>, <<File(TRUE, <<>>)>>,
     <<File(TRUE, <<Slash \o C>>)>>}

OptChoices ==
    {[NoOpts EXCEPT !.Includes = Descending(L)] : L \in Small(PathUniverse, MaxPaths)}
    \cup {[NoOpts EXCEPT !.metaEmpty = FALSE]}
    \cup {[NoOpts EXCEPT !.IncludeFiles = f] : f \in PatternFiles}
    \cup {[NoOpts EXCEPT !.InsensitiveIncludeFiles = f, !.Includes = <<Slash \o A>>] :
             f \in PatternFiles}
    \cup {[NoOpts EXCEPT !.InsensitiveIncludes = <<Slash \o A>>]}

\* every path the options can name
NamedPaths(o) ==
    (Range(o.Includes) \cup Range(o.InsensitiveIncludes)
       \cup UNION {Range(f[1].patterns) : f \in {o.IncludeFiles, o.InsensitiveIncludeFiles} \ {<<>>}})
    \ {BadPattern}

\* a path exists only if its directory does
ConsistentDisk(S, named) ==
    \A p \in S : FilepathDir(p) \in named => FilepathDir(p) \in S

Init ==
    /\ opts \in OptChoices
    /\ disk \in {S \in SUBSET NamedPaths(opts) : ConsistentDisk(S, NamedPaths(opts))}
    /\ \E r \in Repos :
         /\ store = r.store
         /\ snapshots = r.snapshots
         /\ prior = r
    /\ unpacked = {}
    /\ pc = "start"
    /\ locked = FALSE
    /\ uploader = FALSE
    /\ sn = [tree |-> 0, descr |-> "", time |-> 0]
    /\ includePaths = <<>>
    /\ treeID = 0
    /\ calls = <<>>
    /\ flushed = FALSE
    /\ err = ""

----------------------------------------------------------------------------
(* runIncremental *)

\* a return that leaves the lock as it is
ReturnLockHeld(e) ==
    /\ pc' = "done"
    /\ err' = e
    /\ locked' = locked

\* a return after line 233: the deferred unlock runs
Return(e) ==
    /\ pc' = "done"
    /\ err' = e
    /\ locked' = FALSE

\* lines 219-221
CheckArgs ==
    /\ pc = "start"
    /\ IF Empty(opts) /\ MetadataEmpty(opts)
       THEN pc' = "done" /\ err' = "NothingToDo"
       ELSE pc' = "open" /\ err' = err
    /\ UNCHANGED <<opts, disk, store, unpacked, snapshots, prior, locked,
                   uploader, sn, includePaths, treeID, calls, flushed>>

\* lines 229-233
OpenWithAppendLock ==
    /\ pc = "open"
    /\ \E ok \in BOOLEAN :
         IF ok THEN pc' = "index" /\ locked' = TRUE /\ err' = err
         ELSE pc' = "done" /\ locked' = locked /\ err' = "OpenError"
    /\ UNCHANGED <<opts, disk, store, unpacked, snapshots, prior,
                   uploader, sn, includePaths, treeID, calls, flushed>>

\* lines 235-238
LoadIndex ==
    /\ pc = "index"
    /\ \E ok \in BOOLEAN :
         IF ok THEN pc' = "find" /\ UNCHANGED <<locked, err>>
         ELSE Return("IndexError")
    /\ UNCHANGED <<opts, disk, store, unpacked, snapshots, prior,
                   uploader, sn, includePaths, treeID, calls, flushed>>

\* the snapshot FindLatest picks
Latest(S) == CHOOSE x \in S : \A y \in S : y.time <= x.time

\* lines 241-246
FindLatest ==
    /\ pc = "find"
    /\ IF snapshots = {}
       THEN Return("NoSnapshotFound") /\ sn' = sn
       ELSE pc' = "uploader" /\ sn' = Latest(snapshots) /\ UNCHANGED <<locked, err>>
    /\ UNCHANGED <<opts, disk, store, unpacked, snapshots, prior,
                   uploader, includePaths, treeID, calls, flushed>>

\* lines 248-249
StartPackUploader ==
    /\ pc = "uploader"
    /\ uploader' = TRUE
    /\ pc' = "gather"
    /\ UNCHANGED <<opts, disk, store, unpacked, snapshots, prior, locked,
                   sn, includePaths, treeID, calls, flushed, err>>

\* lines 252-260
GatherPaths ==
    /\ pc = "gather"
    /\ LET g == GetPathsFromPatterns(opts) IN
         IF g.err # ""
         THEN Return(g.err) /\ includePaths' = includePaths
         ELSE /\ includePaths' = SortStrings(g.paths)
              /\ pc' = "merge"
              /\ UNCHANGED <<locked, err>>
    /\ UNCHANGED <<opts, disk, store, unpacked, snapshots, prior,
                   uploader, sn, treeID, calls, flushed>>

\* lines 263-266.  The TreeJSONBuilder either accepts every sequence of
\* nodes or rejects a node whose name is not above the last one added.
RunMakeTree ==
    /\ pc = "merge"
    /\ \E strict \in BOOLEAN :
         LET r == MakeTree([store |-> store, unpacked |-> unpacked,
                            calls |-> <<>>, strict |-> strict],
                           sn.tree, Slash, includePaths)
         IN /\ store' = r.st.store
            /\ unpacked' = r.st.unpacked
            /\ calls' = r.st.calls
            /\ IF r.err
               THEN Return("MergeError") /\ treeID' = treeID
               ELSE /\ treeID' = r.id
                    /\ pc' = "flush"
                    /\ UNCHANGED <<locked, err>>
    /\ UNCHANGED <<opts, disk, snapshots, prior, uploader, sn,
                   includePaths, flushed>>

\* Flush whose error is not looked at
FlushUnchecked ==
    /\ pc = "flush"
    /\ \E ok \in BOOLEAN :
         pc' = "snapshot" /\ flushed' = ok /\ UNCHANGED <<locked, err>>
    /\ UNCHANGED <<opts, disk, store, unpacked, snapshots, prior,
                   uploader, sn, includePaths, treeID, calls>>

\* lines 268-271
Flush ==
    /\ pc = "flush"
    /\ \E ok \in BOOLEAN :
         IF ok THEN pc' = "snapshot" /\ flushed' = TRUE /\ UNCHANGED <<locked, err>>
         ELSE Return("FlushError") /\ flushed' = flushed
    /\ UNCHANGED <<opts, disk, store, unpacked, snapshots, prior,
                   uploader, sn, includePaths, treeID, calls>>

\* lines 273-286
SaveSnapshot ==
    /\ pc = "snapshot"
    /\ \E ok \in BOOLEAN :
         IF ok
         THEN /\ snapshots' = snapshots \cup
                     {[tree |-> treeID, descr |-> sn.descr, time |-> sn.time + 1]}
              /\ Return("")
         ELSE Return("SaveSnapshotError") /\ snapshots' = snapshots
    /\ UNCHANGED <<opts, disk, store, unpacked, prior,
                   uploader, sn, includePaths, treeID, calls, flushed>>

Next ==
    \/ CheckArgs
    \/ OpenWithAppendLock
    \/ LoadIndex
    \/ FindLatest
    \/ StartPackUploader
    \/ GatherPaths
    \/ RunMakeTree
    \/ Flush
    \/ SaveSnapshot

Spec == Init /\ [][Next]_vars

----------------------------------------------------------------------------
(* Vocabulary of the properties *)

Names(tree) == {tree[k].name : k \in 1..Len(tree)}

MergeRan == calls # <<>>

\* the call of makeTree made by runIncremental (it returns last)
RootCall == calls[Len(calls)]

\* the calls that loaded the prior tree of their directory
LoadedCalls == {calls[k] : k \in {i \in 1..Len(calls) : calls[i].loaded}}

FullPath(c, n) == c.dir \o n.name

\* the directory of a path, written as a makeTree prefix
ParentDir(p) ==
    IF FilepathDir(p) = Slash THEN Slash ELSE FilepathDir(p) \o Slash

\* a change path of the call is the entry n or lies beneath it
Touched(c, n) ==
    \E p \in Range(c.paths) :
        p = FullPath(c, n) \/ HasPrefix(p, FullPath(c, n) \o Slash)

\* the change paths of the call that lie in or beneath its directory
Scoped(c) == {p \in Range(c.paths) : HasPrefix(p, c.dir)}

RECURSIVE PathsOf(_, _, _)
PathsOf(st, id, dir) ==
    IF id \notin 1..Len(st) THEN {}
    ELSE UNION {{dir \o st[id][k].name}
                  \cup (IF st[id][k].type = "dir"
                        THEN PathsOf(st, st[id][k].subtree,
                                     dir \o st[id][k].name \o Slash)
                        ELSE {}) : k \in 1..Len(st[id])}

PriorPaths == PathsOf(prior.store, sn.tree, Slash)

\* a tree with the trees of its directories in place of their identifiers
RECURSIVE Expand(_, _)
Expand(st, id) ==
    IF id \notin 1..Len(st) THEN <<>>
    ELSE [k \in 1..Len(st[id]) |->
            [name |-> st[id][k].name, type |-> st[id][k].type,
             origin |-> st[id][k].origin,
             sub |-> IF st[id][k].type = "dir"
                     THEN Expand(st, st[id][k].subtree) ELSE <<>>]]

RECURSIVE SortNodes(_)
SortNodes(S) ==
    IF S = {} THEN <<>>
    ELSE LET m == CHOOSE x \in S : \A y \in S : y = x \/ StrLess(x.name, y.name)
         IN <<m>> \o SortNodes(S \ {m})

\* the reference merge of the tree id of directory dir with the change paths P
RECURSIVE RefMerge(_, _, _, _)
RefMerge(st, id, dir, P) ==
    LET old == IF id \in 1..Len(st) THEN st[id] ELSE <<>>
        kept == {[name |-> old[k].name, type |-> old[k].type,
                  origin |-> old[k].origin,
                  sub |-> IF old[k].type = "dir"
                          THEN RefMerge(st, old[k].subtree,
                                        dir \o old[k].name \o Slash, P)
                          ELSE <<>>] :
                   k \in {i \in 1..Len(old) : dir \o old[i].name \notin P}}
        fresh == {[name |-> FilepathBase(p),
                   type |-> NodeFromFileInfo(p).type,
                   origin |-> p, sub |-> <<>>] :
                    p \in {q \in P : ParentDir(q) = dir /\ q \in disk}}
    IN SortNodes(kept \cup fresh)

\* the list has a deletion, an insertion and a modification, at two depths
Mixes(paths) ==
    /\ \E p \in Range(paths) : p \in PriorPaths /\ p \notin disk
    /\ \E p \in Range(paths) : p \notin PriorPaths /\ p \in disk
    /\ \E p \in Range(paths) : p \in PriorPaths /\ p \in disk
    /\ \E p, q \in Range(paths) : ParentDir(p) # ParentDir(q)

----------------------------------------------------------------------------
(* C1.  Whatever the run does and wherever it stops, every tree and every  *)
(* snapshot that was in the repository before the run is still there with  *)
(* the same contents: the run only adds objects.                           *)
C1_PriorObjectsKept ==
    /\ Len(store) >= Len(prior.store)
    /\ \A id \in 1..Len(prior.store) : store[id] = prior.store[id]
    /\ prior.snapshots \subseteq snapshots

\* a finished run that wrote new trees and a new snapshot
C1_Witness ==
    /\ pc = "done" /\ err = ""
    /\ Len(store) > Len(prior.store)
    /\ snapshots # prior.snapshots

(* C2.  A root call of makeTree with a list that mixes deletions,          *)
(* insertions and modifications at several depths succeeds, and the tree   *)
(* it returns is the reference merge in every directory.                   *)
C2_ReferenceMerge ==
    (MergeRan /\ Mixes(includePaths)) =>
        /\ ~RootCall.err
        /\ Expand(store, RootCall.ret)
             = RefMerge(prior.store, sn.tree, Slash, Range(includePaths))

(* C3.  A change path that names an entry n of the prior tree of D and no  *)
(* longer exists on disk: makeTree returns a tree of D without n and with  *)
(* every other prior entry unchanged.                                      *)
C3_DeletionOmitsNode ==
    \A c \in LoadedCalls :
      \A k \in 1..Len(c.old) :
        (FullPath(c, c.old[k]) \in Range(c.paths) \ disk) =>
            /\ ~c.err
            /\ c.old[k].name \notin Names(c.new)
            /\ \A m \in 1..Len(c.old) :
                 (m # k /\ ~Touched(c, c.old[m])) => c.old[m] \in Range(c.new)

(* C4.  When the only change path in or beneath D is D+c, c exists on      *)
(* disk, is no prior entry of D and some prior entry sorts after it:       *)
(* makeTree returns the prior entries with one new node c right before the *)
(* first prior entry whose name is greater than c.                         *)
C4_InsertionOrdering ==
    \A c \in LoadedCalls :
      \A p \in Scoped(c) :
        (/\ Scoped(c) = {p}
         /\ ParentDir(p) = c.dir
         /\ p \in disk
         /\ FilepathBase(p) \notin Names(c.old)
         /\ \E k \in 1..Len(c.old) : StrLess(FilepathBase(p), c.old[k].name)) =>
            /\ ~c.err
            /\ LET first == CHOOSE k \in 1..Len(c.old) :
                              /\ StrLess(FilepathBase(p), c.old[k].name)
                              /\ \A m \in 1..(k - 1) :
                                   ~StrLess(FilepathBase(p), c.old[m].name)
               IN c.new = SubSeq(c.old, 1, first - 1)
                            \o <<NodeFromFileInfo(p)>>
                            \o SubSeq(c.old, first, Len(c.old))

\* a new entry went between two prior entries of its directory
C4_Witness ==
    \E c \in LoadedCalls :
        /\ ~c.err /\ Len(c.old) = 2 /\ Len(c.new) = 3
        /\ Cardinality(Scoped(c)) = 1
        /\ c.new[1] = c.old[1] /\ c.new[3] = c.old[2]
        /\ c.new[2].origin \in disk

(* C5.  A change path that names an entry f of the prior tree of D and     *)
(* still exists on disk: a tree of D that makeTree returns has exactly one *)
(* node named f, built from the filesystem and not the prior node, and     *)
(* every other prior entry unchanged; makeTree does return when this is    *)
(* the only change path in or beneath D.                                   *)
C5_Modification ==
    \A c \in LoadedCalls :
      \A k \in 1..Len(c.old) :
        (FullPath(c, c.old[k]) \in Range(c.paths) \cap disk) =>
            /\ (Scoped(c) = {FullPath(c, c.old[k])}) => ~c.err
            /\ ~c.err =>
                 /\ \A i \in 1..Len(c.new) :
                      c.new[i].name = c.old[k].name =>
                        c.new[i] = NodeFromFileInfo(FullPath(c, c.old[k]))
                 /\ Cardinality({i \in 1..Len(c.new) :
                                   c.new[i].name = c.old[k].name}) = 1
                 /\ \A m \in 1..Len(c.old) :
                      (m # k /\ ~Touched(c, c.old[m])) =>
                          c.old[m] \in Range(c.new)

\* a returned tree that replaced one prior entry and kept another
C5_Witness ==
    \E c \in LoadedCalls :
        /\ ~c.err /\ Len(c.old) = 2 /\ Len(c.new) = 2
        /\ \E k \in 1..2 :
             /\ FullPath(c, c.old[k]) \in Range(c.paths) \cap disk
             /\ c.new[k].origin = FullPath(c, c.old[k])
             /\ c.new[3 - k] = c.old[3 - k]

(* C6.  A call of makeTree with an empty list returns the identifier it    *)
(* was given, loads no tree and writes nothing, at the root and in every   *)
(* recursive call.                                                         *)
C6_IdentityPreservation ==
    /\ \A k \in 1..Len(calls) :
         calls[k].paths = <<>> =>
            /\ ~calls[k].err
            /\ calls[k].ret = calls[k].id
            /\ ~calls[k].loaded
            /\ ~calls[k].wrote
    /\ (MergeRan /\ includePaths = <<>>) =>
            /\ Len(calls) = 1
            /\ pc # "done" => treeID = sn.tree
            /\ store = prior.store
            /\ unpacked = {}

\* a recursive call with an empty list, under a root call that rebuilt its tree
C6_Witness ==
    /\ MergeRan /\ ~RootCall.err /\ RootCall.loaded
    /\ \E k \in 1..Len(calls) :
         calls[k].paths = <<>> /\ calls[k].dir # Slash /\ calls[k].id # 0

(* C7.  Every tree makeTree saves and returns, at every depth, has its     *)
(* nodes in strictly ascending name order, so no name twice.               *)
C7_SortInvariant ==
    /\ \A c \in LoadedCalls :
         ~c.err => IsSorted(c.new) /\ store[c.ret] = c.new
    /\ \A id \in 1..Len(store) : IsSorted(store[id])

\* a saved tree of a sub-directory with a new node before a prior one
C7_Witness ==
    \E c \in LoadedCalls :
        /\ ~c.err /\ c.dir # Slash /\ c.ret > Len(prior.store)
        /\ \E i \in 1..(Len(c.new) - 1) :
             c.new[i].origin # <<>> /\ c.new[i + 1].origin = <<>>

(* C8.  A directory entry of a prior tree with no change path equal to it  *)
(* or beneath it is in the returned tree with the same subtree identifier. *)
C8_StructuralSharing ==
    \A c \in LoadedCalls :
      ~c.err =>
        \A k \in 1..Len(c.old) :
          (c.old[k].type = "dir" /\ ~Touched(c, c.old[k])) =>
              \E i \in 1..Len(c.new) :
                  /\ c.new[i].name = c.old[k].name
                  /\ c.new[i].subtree = c.old[k].subtree
                  /\ c.new[i].origin = <<>>

\* a rebuilt root that kept the subtree of one directory and changed another
C8_Witness ==
    \E c \in LoadedCalls :
        /\ ~c.err /\ c.ret # c.id /\ Len(c.old) = 2 /\ Len(c.new) = 2
        /\ c.old[1].type = "dir" /\ c.old[2].type = "dir"
        /\ c.new[1].subtree # c.old[1].subtree
        /\ ~Touched(c, c.old[2])
        /\ c.new[2].subtree = c.old[2].subtree

(* C9.  A new snapshot is persisted only after makeTree returned without   *)
(* error and the flush then completed without error; a run whose path      *)
(* gathering, merge or flush failed persists none.                         *)
C9_NoPartialCommit ==
    /\ snapshots # prior.snapshots =>
          /\ MergeRan /\ ~RootCall.err
          /\ flushed
          /\ err = ""
          /\ \A x \in snapshots \ prior.snapshots : x.tree = RootCall.ret
    /\ err \in {"ReadError", "InvalidPattern", "MergeError", "FlushError"} =>
          snapshots = prior.snapshots

\* a run that stopped at a failed flush after a merge that wrote trees
C9_Witness ==
    /\ pc = "done" /\ err = "FlushError"
    /\ MergeRan /\ ~RootCall.err /\ RootCall.wrote
    /\ snapshots = prior.snapshots

(* C10.  When the gathered change-path list is empty and no metadata is    *)
(* supplied, runIncremental stops with the nothing-to-do error and has no  *)
(* side effect: no lock, no object written, no new snapshot.               *)
C10_NothingToDoGuard ==
    (/\ GetPathsFromPatterns(opts).err = ""
     /\ GetPathsFromPatterns(opts).paths = <<>>
     /\ MetadataEmpty(opts)) =>
        /\ ~locked
        /\ store = prior.store /\ unpacked = {}
        /\ snapshots = prior.snapshots
        /\ pc \in {"start", "done"}
        /\ pc = "done" => err = "NothingToDo"

(* C11.  When a pattern file cannot be read or a pattern is invalid,       *)
(* runIncremental stops before it touches the repository: the lock is not  *)
(* taken, the index is not loaded, no snapshot is resolved and the         *)
(* uploader is not started.                                                *)
C11_ConfigErrorBeforeRepository ==
    GetPathsFromPatterns(opts).err # "" =>
        /\ ~locked
        /\ ~uploader
        /\ sn.tree = 0
        /\ pc \in {"start", "open", "done"}
        /\ pc = "done" => err \in {"ReadError", "InvalidPattern", "OpenError"}

(* C12.  A run that has taken the append lock holds it until it returns,   *)
(* and has released it when it has returned, with or without an error.     *)
C12_LockReleased ==
    /\ pc = "done" => ~locked
    /\ pc \in {"index", "find", "uploader", "gather", "merge", "flush",
               "snapshot"} => locked

\* a run that took the lock and returned with the error of the merge
C12_Witness ==
    /\ pc = "done" /\ err = "MergeError"
    /\ uploader /\ MergeRan /\ RootCall.err
    /\ ~locked

(* C13.  In a directory that had entries, every change path of that        *)
(* directory that exists on disk has a node in the returned tree, whatever *)
(* the type of the last prior entry and whatever happened to it.           *)
C13_TailAppend ==
    \A c \in LoadedCalls :
        (c.old # <<>> /\ ~c.err) =>
            \A p \in Range(c.paths) :
                (ParentDir(p) = c.dir /\ p \in disk) =>
                    \E k \in 1..Len(c.new) :
                        /\ c.new[k].origin = p
                        /\ c.new[k].name = FilepathBase(p)

(* C14.  In a directory whose prior tree has no entry, a change path of    *)
(* that directory that exists on disk has a node in the returned tree.     *)
C14_EmptyDirectoryInsertion ==
    \A c \in LoadedCalls :
        (c.old = <<>> /\ ~c.err) =>
            \A p \in Range(c.paths) :
                (ParentDir(p) = c.dir /\ p \in disk) =>
                    \E k \in 1..Len(c.new) :
                        /\ c.new[k].origin = p
                        /\ c.new[k].name = FilepathBase(p)

\* a change path with nothing on disk and nothing in the prior snapshot
Inert(p) == p \notin disk /\ p \notin PriorPaths

Without(paths, p) == SelectSeq(paths, LAMBDA q : q # p)

(* C15.  A change path that is neither on disk nor in the prior snapshot   *)
(* is ignored: the merge returns without error, and its tree is the tree   *)
(* that the same list without this path gives.                             *)
C15_InertPathIgnored ==
    MergeRan =>
        \A p \in Range(includePaths) :
            Inert(p) =>
                /\ ~RootCall.err
                /\ \E strict \in BOOLEAN :
                     LET r == MakeTree([store |-> prior.store, unpacked |-> {},
                                        calls |-> <<>>, strict |-> strict],
                                       sn.tree, Slash, Without(includePaths, p))
                     IN /\ ~r.err
                        /\ Expand(r.st.store, r.id) = Expand(store, RootCall.ret)

(* C16.  A recursive call gets only change paths that lie under its        *)
(* sub-directory; a sub-directory with no change path beneath it gets the  *)
(* empty list, and its tree is neither loaded nor saved again.             *)
C16_RecursionOnlyWhereChanges ==
    \A k \in 1..Len(calls) :
        calls[k].dir # Slash =>
            /\ \A p \in Range(calls[k].paths) : HasPrefix(p, calls[k].dir)
            /\ Scoped(calls[k]) = {} =>
                  /\ calls[k].paths = <<>>
                  /\ ~calls[k].loaded
                  /\ ~calls[k].wrote

(* C17.  Every node that makeTree adds from a change path to the tree of D *)
(* comes from a path whose parent directory is D, and bears its basename.  *)
C17_PlacementLocality ==
    \A c \in LoadedCalls :
        \A k \in 1..Len(c.new) :
            c.new[k].origin # <<>> =>
                /\ ParentDir(c.new[k].origin) = c.dir
                /\ c.new[k].name = FilepathBase(c.new[k].origin)

\* the call for the sub-directory named by entry n of the call c
ChildCalls(c, n) ==
    {calls[i] : i \in {m \in 1..Len(calls) :
                          calls[m].dir = FullPath(c, n) \o Slash}}

(* C18.  A change path that equals the full path of a prior entry of D is  *)
(* marked consumed by the call for D, as a deletion and as a modification, *)
(* and is not passed to the recursive call of any later entry of D.        *)
C18_Consumption ==
    \A c \in LoadedCalls :
        \A j \in 1..Len(c.paths) :
            \A k \in 1..Len(c.old) :
                c.paths[j] = FullPath(c, c.old[k]) =>
                    /\ ~c.err => c.remove[j]
                    /\ \A m \in (k + 1)..Len(c.old) :
                         \A d \in ChildCalls(c, c.old[m]) :
                             c.paths[j] \notin Range(d.paths)

\* the nodes the call handed to the builder, a rejected one included
Handed(c) ==
    IF Len(c.new) > Len(c.tb)
    THEN Append(c.tb, CHOOSE n \in Range(c.new) : n \notin Range(c.tb))
    ELSE c.tb

(* C19.  Within one call the nodes are handed to the builder in strictly   *)
(* ascending name order, and the sequence the builder holds is the node    *)
(* sequence of the tree that is saved.                                     *)
C19_EmissionOrder ==
    \A c \in LoadedCalls :
        /\ IsSorted(Handed(c))
        /\ ~c.err => c.tb = c.new

\* the names between the separators of a path
RECURSIVE Split(_)
Split(p) ==
    IF p = <<>> THEN <<>>
    ELSE IF p[1] = Slash[1] THEN Split(Tail(p))
    ELSE LET n == IF \E i \in 1..Len(p) : p[i] = Slash[1]
                  THEN (CHOOSE i \in 1..Len(p) :
                          p[i] = Slash[1] /\ \A m \in 1..(i - 1) : p[m] # Slash[1]) - 1
                  ELSE Len(p)
         IN <<SubSeq(p, 1, n)>> \o Split(SubSeq(p, n + 1, Len(p)))

\* p lies beneath the directory, name by name
LiesUnder(p, dir) ==
    /\ Len(Split(p)) > Len(Split(dir))
    /\ SubSeq(Split(p), 1, Len(Split(dir))) = Split(dir)

(* C20.  The directory prefix of every makeTree call ends with the         *)
(* separator, so a change path passes the prefix test exactly when it lies *)
(* beneath the directory name by name, and every other path of the list is *)
(* marked out of scope, a path under a sibling whose name extends the      *)
(* directory's name included.                                              *)
C20_ScopeByPrefix ==
    \A k \in 1..Len(calls) :
        /\ calls[k].dir[Len(calls[k].dir)] = Slash[1]
        /\ \A j \in 1..Len(calls[k].paths) :
             /\ InScope(calls[k].paths[j], calls[k].dir)
                  <=> LiesUnder(calls[k].paths[j], calls[k].dir)
             /\ (calls[k].loaded /\ ~LiesUnder(calls[k].paths[j], calls[k].dir))
                  => calls[k].remove[j]

\* the call for /b/ was given /bb/a, marked out of scope, and a path of /b/
C20_Witness ==
    \E c \in LoadedCalls :
        /\ ~c.err
        /\ c.dir = Slash \o B \o Slash
        /\ \E j \in 1..Len(c.paths) :
             /\ c.paths[j] = Slash \o B \o B \o Slash \o A
             /\ c.remove[j]
        /\ \E j \in 1..Len(c.paths) :
             LiesUnder(c.paths[j], c.dir) /\ InScope(c.paths[j], c.dir)

====
